---- MODULE Spec2Model ----
(***************************************************************************)
(* Model of qute/persistance.py: the dict facade SqliteDict over one       *)
(* table, and the worker thread Connection that owns the sqlite handle and *)
(* serves a FIFO request queue.                                            *)
(*                                                                         *)
(* The model follows the statements of the methods as written.  Names the  *)
(* methods use but the class never binds behave as Python makes them       *)
(* behave:                                                                 *)
(*   - Connection binds self.logger (line 490); every use of self.log      *)
(*     (lines 516, 549, 570, 591) raises AttributeError;                   *)
(*   - Connection.__init__ binds _thread_initialized (line 488); the flag  *)
(*     read at line 688 is _sqlitedict_thread_initialized, which exists    *)
(*     only once run() has set it (line 520);                              *)
(*   - update() reads its local `items` before binding it (line 257):      *)
(*     UnboundLocalError, which `except AttributeError` does not catch;    *)
(*   - DEL_ITEM (line 346) is not a well-formed statement.                 *)
(* Init is the state right after self.conn = self.connect(): the worker    *)
(* thread has been started and has not run yet.                            *)
(***************************************************************************)
EXTENDS Integers, Sequences, FiniteSets, TLC

(* ------------------------------ bounds --------------------------------- *)

\* total number of facade/channel calls issued by all caller threads
MaxCalls == 3

\* values stored are the integers 0..MaxVal
MaxVal == 1

Callers == {"c1", "c2"}
Keys == {"a", "b"}
Values == 0..MaxVal
Worker == "worker"

(* --------------------------- encode / decode --------------------------- *)

\* pickle.HIGHEST_PROTOCOL
PICKLE_PROTOCOL == 5

\* encode(obj): sqlite3.Binary(dumps(obj, protocol=PICKLE_PROTOCOL)).  For an
\* int 0..255 the pickle is PROTO (0x80) protocol BININT1 (0x4b) obj STOP (0x2e)
encode(obj) == <<128, PICKLE_PROTOCOL, 75, obj, 46>>

\* decode(obj): loads(bytes(obj)): the operand pushed by BININT1, returned at
\* STOP
decode(obj) == obj[4]

(* ------------------------------ the table ------------------------------ *)

\* a row of the table (key TEXT PRIMARY KEY, value BLOB); a table is the
\* sequence of its rows in rowid order
Row(k, v) == [k |-> k, v |-> v]

HasKey(t, k) == \E i \in 1..Len(t) : t[i].k = k

\* REPLACE INTO t (key, value) VALUES (?,?): the row holding the key, if any,
\* is deleted and a new row with the next rowid is inserted
Replace(t, k, v) ==
    LET NotK(r) == r.k # k
    IN Append(SelectSeq(t, NotK), Row(k, v))

(* ----------------------------- statements ------------------------------ *)

Stmt(q, k, v) == [q |-> q, k |-> k, v |-> v]

ADD_ITEM(k, v) == Stmt("REPLACE", k, v)
CLEAR_ALL == Stmt("DELETE_ALL", "", <<>>)
\* 'DELETE FROM ""{table}" WHERE key = ?': sqlite rejects it (syntax error)
DEL_ITEM(k) == Stmt("MALFORMED", k, <<>>)
GET_ITEM(k) == Stmt("SELECT_VALUE", k, <<>>)
\* a lookup without its WHERE clause: it yields a row for any key
HasAnyItem(k) == Stmt("SELECT_COUNT", "", <<>>)
HAS_ITEM(k) == Stmt("SELECT_1", k, <<>>)
GET_LEN == Stmt("SELECT_COUNT", "", <<>>)
GET_KEYS == Stmt("SELECT_KEYS", "", <<>>)
GET_VALUES == Stmt("SELECT_VALUES", "", <<>>)
GET_ITEMS == Stmt("SELECT_ITEMS", "", <<>>)
COMMIT == Stmt("--commit--", "", <<>>)
CLOSE == Stmt("--close--", "", <<>>)

\* an item of a response queue: a row of a cursor, or the sentinel
Rec(k, v) == [tag |-> "row", k |-> k, v |-> v]
NoMore == [tag |-> "--no more--", k |-> "", v |-> <<>>]

\* cursor.execute(req, arg) raises
Fails(st) == st.q = "MALFORMED"

\* the table after cursor.execute(req, arg)
Execute(t, st) ==
    CASE st.q = "REPLACE" -> Replace(t, st.k, st.v)
      [] st.q = "DELETE_ALL" -> <<>>
      [] OTHER -> t

\* a cursor that yields the rows newest first (ORDER BY rowid DESC)
CursorNewestFirst(t, st) ==
    LET u == [i \in 1..Len(t) |-> t[Len(t) + 1 - i]]
        IsK(r) == r.k = st.k
        hit == SelectSeq(u, IsK)
    IN CASE st.q = "SELECT_VALUE" -> [i \in 1..Len(hit) |-> Rec("", hit[i].v)]
         [] st.q = "SELECT_1" -> [i \in 1..Len(hit) |-> Rec("", <<1>>)]
         [] st.q = "SELECT_COUNT" -> <<Rec("", <<Len(u)>>)>>
         [] st.q = "SELECT_KEYS" -> [i \in 1..Len(u) |-> Rec(u[i].k, <<>>)]
         [] st.q = "SELECT_VALUES" -> [i \in 1..Len(u) |-> Rec("", u[i].v)]
         [] st.q = "SELECT_ITEMS" -> [i \in 1..Len(u) |-> Rec(u[i].k, u[i].v)]
         [] OTHER -> <<>>

\* the rows `for rec in cursor` yields after cursor.execute(req, arg); the
\* table is kept in rowid order, the ORDER BY of GET_KEYS, GET_VALUES and
\* GET_ITEMS
Cursor(t, st) ==
    LET IsK(r) == r.k = st.k
        hit == SelectSeq(t, IsK)
    IN CASE st.q = "SELECT_VALUE" -> [i \in 1..Len(hit) |-> Rec("", hit[i].v)]
         [] st.q = "SELECT_1" -> [i \in 1..Len(hit) |-> Rec("", <<1>>)]
         [] st.q = "SELECT_COUNT" -> <<Rec("", <<Len(t)>>)>>
         [] st.q = "SELECT_KEYS" -> [i \in 1..Len(t) |-> Rec(t[i].k, <<>>)]
         [] st.q = "SELECT_VALUES" -> [i \in 1..Len(t) |-> Rec("", t[i].v)]
         [] st.q = "SELECT_ITEMS" -> [i \in 1..Len(t) |-> Rec(t[i].k, t[i].v)]
         [] OTHER -> <<>>

(* ------------------------------- state --------------------------------- *)

VARIABLES
    workload,      \* the calls the caller threads of this run make
    mode,          \* SqliteDict._mode
    autocommit,    \* SqliteDict.autocommit = Connection.autocommit
    attached,      \* SqliteDict.conn is not None
    fileExists,    \* the database file is present at SqliteDict._path
    wpc,           \* the worker thread: "start", "loop" or "dead"
    initialized,   \* Connection has the attribute _sqlitedict_thread_initialized
    exception,     \* Connection.exception
    reqs,          \* Connection.reqs, the request queue
    handle,        \* the sqlite connection of run(): "none" or "open"
    table,         \* the table as the handle sees it (uncommitted rows included)
    disk,          \* the committed table
    nextId,        \* identity of the next request put on reqs
    nsink,         \* identity of the last response queue created
    pc,            \* per caller thread: where it is in its call
    op,            \* per caller thread: the call it is making
    prog,          \* per caller thread: the channel steps its call still has to make
    sid,           \* per caller thread: the response queue it reads
    inbox,         \* per caller thread: the items of that response queue
    acc,           \* per caller thread: the rows its iteration has yielded
    t0,            \* per caller thread: nextId when its call started
    closed,        \* per caller thread: self.conn was None when its call started
    seen,          \* per caller thread: the failure check_raise_error has unpacked
    lastSet,       \* history: per key, the value of the last set that returned,
                   \* <<>> once a call other than a read, or a set or delete of
                   \* another key, was made
    shadow,        \* history, kept in runs that start from an empty table: per
                   \* key, "new" until it is touched, "set" or "del" after a
                   \* set or delete of it returned, "?" after one that raised,
                   \* and for all keys after any other mutation
    rid,           \* per caller thread: the last request its call has put
    ret,           \* per caller thread: how its last call ended
    ncalls,        \* calls started
    served,        \* history: ids of the requests run() has dequeued, in order
    users,         \* history: threads that operated on the sqlite handle
    commits,       \* history: for each native conn.commit(), the request it was
                   \* made for and the requests served before it
    lost,          \* history: failures check_raise_error cleared, with what it raised
    old            \* the Connections the facade has dropped whose thread has not
                   \* ended: for each, where run() is and its request queue

vars == <<workload, mode, autocommit, attached, fileExists, wpc, initialized, exception,
          reqs, handle, table, disk, nextId, nsink, pc, op, prog, sid, inbox,
          acc, t0, closed, seen, lastSet, shadow, rid, ret, ncalls, served, users,
          commits, lost, old>>

facadeVars == <<workload, mode, autocommit, attached, fileExists>>
workerVars == <<wpc, initialized, handle, table, disk, served, users, commits>>

\* Connection.exception: None, or sys.exc_info() of a failure
NoException == [kind |-> "None", id |-> 0]
ConnectFailure == [kind |-> "connect", id |-> 0]
StatementFailure(id) == [kind |-> "statement", id |-> id]

\* a call of the facade or of the channel
Op(name, k, v, flag) == [name |-> name, k |-> k, v |-> v, flag |-> flag]
NoOp == Op("", "", 0, FALSE)

\* how a call ended: the thread, the call, "ok" or the exception raised, the
\* line that raised it, the value returned, the failure check_raise_error had
\* unpacked, and t0, closed, rid of the call
Ret(o, out, at, val, c) ==
    [by |-> c, op |-> o, out |-> out, at |-> at, val |-> val, seen |-> seen[c],
     t0 |-> t0[c], closed |-> closed[c], rid |-> rid[c]]
NoRet ==
    [by |-> "", op |-> NoOp, out |-> "", at |-> 0, val |-> <<>>,
     seen |-> NoException, t0 |-> 0, closed |-> FALSE, rid |-> 0]

\* the calls of the facade (and Connection.execute, given a statement sqlite
\* rejects)
Ops ==
    {Op(n, k, 0, FALSE) : n \in {"get", "contains", "delete"}, k \in Keys}
    \cup {Op("set", k, v, FALSE) : k \in Keys, v \in Values}
    \cup {Op(n, "", 0, FALSE) : n \in {"length", "keys", "clear", "update",
                                       "terminate", "del", "execute"}}
    \cup {Op(n, "", 0, f) : n \in {"commit", "close"}, f \in BOOLEAN}

\* SqliteDict.values, items, the rest of SqliteDict.__init__ after
\* self.conn = self.connect(), __enter__, __exit__ and Connection.executemany
MoreOps ==
    {Op(n, "", 0, FALSE) : n \in {"values", "items", "open", "enter", "exit"}}
    \cup {Op("executemany", "", 0, f) : f \in BOOLEAN}

AllOps == Ops \cup MoreOps

OpsNamed(names) == {o \in AllOps : o.name \in names}

\* the runs explored: the threads that make calls, and the calls they draw
\* from.  One thread makes any calls; two threads race sets of one key (two
\* values tell the sets apart) with commits, and race statements that fail
\* with commit and close
Workload(threads, ops) == [threads |-> threads, ops |-> ops]

\* one thread sets, deletes, reads and counts keys of a table that starts
\* empty
CountWorkload ==
    Workload({"c1"}, {o \in OpsNamed({"set", "delete", "get", "length"}) : o.v = 0})

\* one thread runs the constructor, then reads
OpenWorkload ==
    Workload({"c1"}, OpsNamed({"open", "length", "keys"})
                     \cup {Op("get", "b", 0, FALSE)})

\* one thread sets keys and iterates
IterWorkload ==
    Workload({"c1"}, OpsNamed({"keys", "values", "items", "length"})
                     \cup {Op("set", "a", 0, FALSE), Op("set", "b", MaxVal, FALSE)})

\* one thread uses the store as a context manager, closes it by force and
\* makes a statement fail; no statement of these runs changes the table
EnterWorkload ==
    Workload({"c1"}, OpsNamed({"enter", "exit", "execute"})
                     \cup {Op("close", "", 0, TRUE)})

\* one thread makes executemany calls, with and without a failing statement
ManyWorkload ==
    Workload({"c1"}, OpsNamed({"execute", "executemany"})
                     \cup {Op("commit", "", 0, TRUE)})

\* two threads read a store nobody writes
SelectWorkload ==
    Workload(Callers, OpsNamed({"keys", "length"}) \cup {Op("get", "b", 0, FALSE)})

Workloads ==
    { CountWorkload, OpenWorkload, IterWorkload, ManyWorkload, SelectWorkload,
      EnterWorkload,
      Workload({"c1"}, {o \in Ops : o.v \in {0, MaxVal}}),
      Workload(Callers, {o \in OpsNamed({"set", "commit"}) :
                            o.k # "b" /\ o.v \in {0, MaxVal}}),
      Workload(Callers, OpsNamed({"execute", "close"})
                        \cup {Op("commit", "", 0, TRUE)}) }

\* the table the database file holds when it is opened
InitTable == <<Row("b", encode(0))>>

\* the table of the file a run starts on
TableAtOpen(w) == IF w = CountWorkload THEN <<>> ELSE InitTable

\* _VALID_MODES: read-only, and read/write on the table as it is
Modes == {"r", "a"}

\* 'w' differs from 'a' in the constructor alone (every later test of the
\* mode is mode == "r"): runs that make the constructor's calls have it.
\* Connection never reads the mode: runs of direct Connection calls take one.
ModesOf(w) ==
    CASE w = OpenWorkload -> Modes \cup {"w"}
      [] w = ManyWorkload -> {"a"}
      [] w = SelectWorkload -> {"r"}
      [] OTHER -> Modes

Init ==
    /\ workload \in Workloads
    /\ mode \in ModesOf(workload)
    /\ autocommit \in BOOLEAN
    /\ attached = TRUE
    /\ fileExists = TRUE
    /\ wpc = "start"
    /\ initialized = FALSE
    /\ exception = NoException
    /\ reqs = <<>>
    /\ handle = "none"
    /\ disk = TableAtOpen(workload)
    /\ table = disk
    /\ nextId = 1
    /\ nsink = 0
    /\ pc = [c \in Callers |-> "idle"]
    /\ op = [c \in Callers |-> NoOp]
    /\ prog = [c \in Callers |-> <<>>]
    /\ sid = [c \in Callers |-> 0]
    /\ inbox = [c \in Callers |-> <<>>]
    /\ acc = [c \in Callers |-> <<>>]
    /\ t0 = [c \in Callers |-> 0]
    /\ closed = [c \in Callers |-> FALSE]
    /\ seen = [c \in Callers |-> NoException]
    /\ lastSet = [k \in Keys |-> <<>>]
    /\ shadow = [k \in Keys |-> "new"]
    /\ rid = [c \in Callers |-> 0]
    /\ ret = [c \in Callers |-> NoRet]
    /\ ncalls = 0
    /\ served = <<>>
    /\ users = {}
    /\ commits = <<>>
    /\ lost = {}
    /\ old = <<>>

(* ------------------------- Connection.run ------------------------------ *)

\* sqlite3.connect raises (lines 495-507): logged through self.logger, the
\* failure is stored and re-raised, the thread ends
WorkerConnectFails ==
    /\ wpc = "start"
    /\ exception' = ConnectFailure
    /\ wpc' = "dead"
    /\ UNCHANGED <<facadeVars, old, initialized, reqs, handle, table, disk, nextId,
                   nsink, pc, op, prog, sid, inbox, acc, t0, closed, seen, lastSet,
                   shadow, rid, ret, ncalls,
                   served, users, commits, lost>>

\* a PRAGMA raises (lines 509-518): the handler's self.log raises
\* AttributeError before self.exception is assigned, the thread ends
WorkerPragmaFails ==
    /\ wpc = "start"
    /\ handle' = "open"
    /\ users' = users \cup {Worker}
    /\ wpc' = "dead"
    /\ UNCHANGED <<facadeVars, old, initialized, exception, reqs, table, disk,
                   nextId, nsink, pc, op, prog, sid, inbox, acc, t0, closed, seen, lastSet,
                   shadow, rid, ret,
                   ncalls, served, commits, lost>>

\* lines 495-520 without a failure
WorkerInitialized ==
    /\ wpc = "start"
    /\ handle' = "open"
    /\ users' = users \cup {Worker}
    /\ initialized' = TRUE
    /\ wpc' = "loop"
    /\ UNCHANGED <<facadeVars, old, exception, reqs, table, disk, nextId, nsink, pc,
                   op, prog, sid, inbox, acc, t0, closed, seen, lastSet,
                   shadow, rid, ret, ncalls, served,
                   commits, lost>>

\* a queue that hands out its newest item first
ReqsGetNewest(q) == [req |-> q[Len(q)], rest |-> SubSeq(q, 1, Len(q) - 1)]

\* self.reqs.get() (line 524): the oldest request of the queue, and the
\* queue left
ReqsGet(q) == [req |-> Head(q), rest |-> Tail(q)]

NextRequest(q) == ReqsGet(q).req
RestRequests(q) == ReqsGet(q).rest

\* one response queue shared by all selects: every thread that is reading
\* receives the items
DeliverToAll(res, items) ==
    [c \in Callers |-> IF res # 0 /\ sid[c] # 0 THEN inbox[c] \o items
                       ELSE inbox[c]]

\* res.put(...) for each item: the response queue `res` receives the items; a
\* queue no caller reads any more is garbage
Deliver(res, items) ==
    [c \in Callers |-> IF res # 0 /\ sid[c] = res THEN inbox[c] \o items
                       ELSE inbox[c]]

\* lines 525-527 and 570: "--close--" leaves the loop; self.log.debug raises
\* AttributeError, so conn.close() and res.put (lines 571-572) are not reached
WorkerClose ==
    /\ wpc = "loop"
    /\ reqs # <<>>
    /\ NextRequest(reqs).st.q = "--close--"
    /\ reqs' = RestRequests(reqs)
    /\ served' = Append(served, NextRequest(reqs).id)
    /\ wpc' = "dead"
    /\ UNCHANGED <<facadeVars, old, initialized, exception, handle, table, disk,
                   nextId, nsink, pc, op, prog, sid, inbox, acc, t0, closed, seen, lastSet,
                   shadow, rid, ret,
                   ncalls, users, commits, lost>>

\* lines 528-531: conn.commit(), then the sentinel if there is a response queue
WorkerCommit ==
    /\ wpc = "loop"
    /\ reqs # <<>>
    /\ NextRequest(reqs).st.q = "--commit--"
    /\ reqs' = RestRequests(reqs)
    /\ served' = Append(served, NextRequest(reqs).id)
    /\ disk' = table
    /\ commits' = Append(commits, [by |-> NextRequest(reqs).id, after |-> served])
    /\ users' = users \cup {Worker}
    /\ inbox' = Deliver(NextRequest(reqs).res, <<NoMore>>)
    /\ UNCHANGED <<facadeVars, old, wpc, initialized, exception, handle, table,
                   nextId, nsink, pc, op, prog, sid, acc, t0, closed, seen, lastSet,
                   shadow, rid, ret, ncalls,
                   lost>>

\* lines 533-534 and 562-568: the statement runs, its rows and the sentinel go
\* to the response queue, autocommit commits
WorkerExecute ==
    /\ wpc = "loop"
    /\ reqs # <<>>
    /\ NextRequest(reqs).st.q \notin {"--close--", "--commit--"}
    /\ ~Fails(NextRequest(reqs).st)
    /\ reqs' = RestRequests(reqs)
    /\ served' = Append(served, NextRequest(reqs).id)
    /\ table' = Execute(table, NextRequest(reqs).st)
    /\ disk' = IF autocommit THEN table' ELSE disk
    /\ commits' = IF autocommit
                  THEN Append(commits, [by |-> NextRequest(reqs).id,
                                        after |-> served'])
                  ELSE commits
    /\ users' = users \cup {Worker}
    /\ inbox' = Deliver(NextRequest(reqs).res,
                        Cursor(table, NextRequest(reqs).st) \o <<NoMore>>)
    /\ UNCHANGED <<facadeVars, old, wpc, initialized, exception, handle, nextId,
                   nsink, pc, op, prog, sid, acc, t0, closed, seen, lastSet,
                   shadow, rid, ret, ncalls, lost>>

\* lines 533-549: the statement raises, the failure is stored; the handler's
\* first self.log.error raises AttributeError out of run(): the thread ends
WorkerExecuteFails ==
    /\ wpc = "loop"
    /\ reqs # <<>>
    /\ NextRequest(reqs).st.q \notin {"--close--", "--commit--"}
    /\ Fails(NextRequest(reqs).st)
    /\ reqs' = RestRequests(reqs)
    /\ served' = Append(served, NextRequest(reqs).id)
    /\ exception' = StatementFailure(NextRequest(reqs).id)
    /\ users' = users \cup {Worker}
    /\ wpc' = "dead"
    /\ UNCHANGED <<facadeVars, old, initialized, handle, table, disk, nextId, nsink,
                   pc, op, prog, sid, inbox, acc, t0, closed, seen, lastSet,
                   shadow, rid, ret, ncalls,
                   commits, lost>>

\* run() of a Connection the facade has dropped: initialization (lines
\* 495-520) succeeds or fails; in the loop a "--close--" or a failing
\* statement ends the thread (lines 570, 549), anything else is served. The
\* thread that dropped the Connection reads none of its response queues.
OldWorkerNext ==
    \E i \in 1..Len(old) :
       LET w == old[i]
           rest == [j \in 1..(Len(old) - 1) |-> IF j < i THEN old[j] ELSE old[j + 1]]
       IN /\ \/ /\ w.wpc = "start"
                /\ \/ old' = [old EXCEPT ![i].wpc = "loop"]
                   \/ old' = rest
             \/ /\ w.wpc = "loop"
                /\ w.reqs # <<>>
                /\ IF \/ NextRequest(w.reqs).st.q = "--close--"
                      \/ Fails(NextRequest(w.reqs).st)
                   THEN old' = rest
                   ELSE old' = [old EXCEPT ![i].reqs = RestRequests(w.reqs)]
          /\ UNCHANGED <<facadeVars, wpc, initialized, exception, reqs, handle,
                         table, disk, nextId, nsink, pc, op, prog, sid, inbox,
                         acc, t0, closed, seen, lastSet, shadow, rid, ret,
                         ncalls, served, users, commits, lost>>

WorkerNext ==
    \/ WorkerConnectFails
    \/ WorkerPragmaFails
    \/ WorkerInitialized
    \/ WorkerClose
    \/ WorkerCommit
    \/ WorkerExecute
    \/ WorkerExecuteFails

(* --------------------------- caller threads ---------------------------- *)

\* the steps a call makes on the channel
Exec(st) == [t |-> "execute", st |-> st, one |-> FALSE]        \* Connection.execute
SelectOne(st) == [t |-> "select", st |-> st, one |-> TRUE]     \* Connection.select_one
Select(st) == [t |-> "select", st |-> st, one |-> FALSE]       \* Connection.select
Step(t) == [t |-> t, st |-> CLOSE, one |-> FALSE]

\* a commit that never waits for the worker
ConnCommitNoWait(blocking) == <<Exec(COMMIT)>>

\* Connection.commit(blocking), lines 647-656
ConnCommit(blocking) ==
    IF blocking THEN <<SelectOne(COMMIT)>> ELSE <<Exec(COMMIT)>>

\* Connection.close(force), lines 658-671. The step "join" is self.join() of
\* line 671; no call gets there, because run() ends at line 570 before line
\* 572 answers the close request (JoinNotReached), so no action takes it.
ConnClose(force) ==
    IF force THEN <<Step("forceput")>> ELSE <<SelectOne(CLOSE), Step("join")>>

\* the keys of the parameter tuples handed to executemany, in list order
ItemKeys == <<"a", "b">>

\* the requests of executemany(req, items): req is ADD_ITEM with the items
\* (k, encode(o.v)), or (o.flag) DEL_ITEM with the items (k,)
ManyItems(o) ==
    [i \in 1..Len(ItemKeys) |->
        IF o.flag THEN DEL_ITEM(ItemKeys[i])
        ELSE ADD_ITEM(ItemKeys[i], encode(o.v))]

\* an executemany that enqueues its items last first
executemanyReversed(sts) ==
    [i \in 1..Len(sts) |-> Exec(sts[Len(sts) + 1 - i])] \o <<Step("check")>>

\* Connection.executemany(req, items), lines 618-621: execute(req, item) for
\* each item, then check_raise_error()
executemany(sts) ==
    [i \in 1..Len(sts) |-> Exec(sts[i])] \o <<Step("check")>>

\* a set and a delete that commit whatever autocommit says
AlwaysCommit == ConnCommit(TRUE)

\* `if self.autocommit: self.commit()` (lines 337, 348): commit() blocks
IfAutocommit == IF autocommit THEN ConnCommit(TRUE) ELSE <<>>

\* SqliteDict.close(force), lines 386-394
DictClose(force) ==
    IF attached
    THEN (IF autocommit /\ ~force THEN ConnCommit(TRUE) ELSE <<>>)
         \o ConnClose(force) \o <<Step("detach")>>
    ELSE <<>>

\* the channel steps of a call, in order
Prog(o) ==
    CASE o.name = "get" -> <<SelectOne(GET_ITEM(o.k))>>
      [] o.name = "contains" -> <<SelectOne(HAS_ITEM(o.k))>>
      [] o.name = "length" -> <<SelectOne(GET_LEN)>>
      [] o.name = "keys" -> <<Select(GET_KEYS)>>
      [] o.name = "values" -> <<Select(GET_VALUES)>>
      [] o.name = "items" -> <<Select(GET_ITEMS)>>
      [] o.name = "set" -> <<Exec(ADD_ITEM(o.k, encode(o.v)))>> \o IfAutocommit
      [] o.name = "delete" ->
            <<SelectOne(HAS_ITEM(o.k)), Exec(DEL_ITEM(o.k))>> \o IfAutocommit
      [] o.name = "clear" ->
            ConnCommit(TRUE) \o <<Exec(CLEAR_ALL)>> \o ConnCommit(TRUE)
      [] o.name = "commit" -> IF attached THEN ConnCommit(o.flag) ELSE <<>>
      [] o.name = "close" -> DictClose(o.flag)
      [] o.name = "terminate" -> DictClose(FALSE) \o <<Step("remove")>>
      \* __enter__, lines 285-286: connect() if self.conn is None
      [] o.name = "enter" -> IF attached THEN <<>> ELSE <<Step("connect")>>
      \* __exit__, line 295: self.close()
      [] o.name = "exit" -> DictClose(FALSE)
      [] o.name = "execute" -> <<Exec(DEL_ITEM(o.k))>>
      [] o.name = "executemany" -> executemany(ManyItems(o))
      \* SqliteDict.__init__ after self.conn = self.connect(): nothing more
      \* in mode 'r' (line 167), self.clear() in every other mode (line 172)
      [] o.name = "open" ->
            IF mode = "r" THEN <<>>
            ELSE ConnCommit(TRUE) \o <<Exec(CLEAR_ALL)>> \o ConnCommit(TRUE)
      [] OTHER -> <<>>

\* a facade whose terminate() lacks the read-only check
MutatingButTerminate == {"set", "delete", "clear", "update"}

\* the calls a read-only SqliteDict refuses (lines 240, 253, 332, 341, 405)
Mutating == {"set", "delete", "clear", "update", "terminate"}

\* where a channel step starts
StartPc(p) ==
    CASE p.t \in {"execute", "select"} -> "enter"
      [] OTHER -> p.t

callerVars == <<pc, op, prog, sid, inbox, acc, t0, closed, seen, lastSet, shadow,
                rid, ret>>

\* lastSet once the call o has been made
Forget(o) ==
    CASE o.name \in {"set", "delete"} -> [lastSet EXCEPT ![o.k] = <<>>]
      [] o.name \in {"get", "contains", "length", "keys", "values", "items"} ->
            lastSet
      [] OTHER -> [k \in Keys |-> <<>>]

\* shadow once a call has ended as r says
Shadow(r) ==
    CASE workload # CountWorkload -> shadow
      [] r.op.name \in {"get", "contains", "length", "keys", "values", "items"} ->
            shadow
      [] r.op.name = "set" ->
            [shadow EXCEPT ![r.op.k] = IF r.out = "ok" THEN "set" ELSE "?"]
      [] r.op.name = "delete" ->
            [shadow EXCEPT ![r.op.k] =
                IF r.out = "ok" THEN "del"
                ELSE IF r.out = "KeyError" THEN @ ELSE "?"]
      [] OTHER -> [k \in Keys |-> "?"]

\* the call of c ends as r says
FinishWith(c, r) ==
    /\ pc' = [pc EXCEPT ![c] = "idle"]
    /\ ret' = [ret EXCEPT ![c] = r]
    /\ prog' = [prog EXCEPT ![c] = <<>>]
    /\ sid' = [sid EXCEPT ![c] = 0]
    /\ inbox' = [inbox EXCEPT ![c] = <<>>]
    /\ acc' = [acc EXCEPT ![c] = <<>>]
    /\ op' = [op EXCEPT ![c] = NoOp]
    /\ t0' = [t0 EXCEPT ![c] = 0]
    /\ closed' = [closed EXCEPT ![c] = FALSE]
    /\ seen' = [seen EXCEPT ![c] = NoException]
    /\ rid' = [rid EXCEPT ![c] = 0]
    /\ lastSet' = IF r.op.name = "set" /\ r.out = "ok"
                  THEN [lastSet EXCEPT ![r.op.k] = <<r.op.v>>]
                  ELSE Forget(r.op)
    /\ shadow' = Shadow(r)

\* the call of c ends: it returns val, or raises `out` at line `at`
Finish(c, out, at, val) == FinishWith(c, Ret(op[c], out, at, val, c))

\* the current channel step of c is done: the next one starts, or the call
\* returns val
Advance(c, val) ==
    IF Len(prog[c]) = 1
    THEN Finish(c, "ok", 0, val)
    ELSE /\ prog' = [prog EXCEPT ![c] = Tail(prog[c])]
         /\ pc' = [pc EXCEPT ![c] = StartPc(prog[c][2])]
         /\ sid' = [sid EXCEPT ![c] = 0]
         /\ inbox' = [inbox EXCEPT ![c] = <<>>]
         /\ acc' = [acc EXCEPT ![c] = <<>>]
         /\ UNCHANGED <<op, t0, closed, seen, lastSet, shadow, rid, ret>>

\* a caller thread starts a call: the checks made before the channel is used
Call(c, o) ==
    /\ pc[c] = "idle"
    /\ ncalls < MaxCalls
    /\ c \in workload.threads
    /\ o \in workload.ops
    \* caller threads are interchangeable: the first call of a run is c1's
    /\ ncalls = 0 => c = "c1"
    \* the rest of the constructor runs before any other call
    /\ o.name = "open" => ncalls = 0
    /\ ncalls' = ncalls + 1
    /\ LET end(out, at) ==
               FinishWith(c, [by |-> c, op |-> o, out |-> out, at |-> at,
                              val |-> <<>>, seen |-> NoException,
                              t0 |-> nextId, closed |-> ~attached, rid |-> 0])
       IN CASE mode = "r" /\ o.name \in Mutating -> end("RuntimeError", 0)
            \* update: items = items.items() (line 257)
            [] mode # "r" /\ o.name = "update" -> end("UnboundLocalError", 257)
            \* __del__: close(do_log=False, ...) is a TypeError, swallowed
            [] o.name = "del" -> end("ok", 0)
            [] OTHER ->
                 IF Prog(o) = <<>>
                 THEN end("ok", 0)
                 ELSE /\ prog' = [prog EXCEPT ![c] = Prog(o)]
                      /\ pc' = [pc EXCEPT ![c] = StartPc(Prog(o)[1])]
                      /\ ret' = [ret EXCEPT ![c] = NoRet]
                      /\ op' = [op EXCEPT ![c] = o]
                      /\ t0' = [t0 EXCEPT ![c] = nextId]
                      /\ closed' = [closed EXCEPT ![c] = ~attached]
                      /\ lastSet' = Forget(o)
                      /\ UNCHANGED <<rid, sid, inbox, acc, seen, shadow>>
    /\ UNCHANGED <<facadeVars, old, wpc, initialized, exception, reqs, handle,
                   table, disk, nextId, nsink, served, users, commits, lost>>

\* an execute that puts its request before it looks at the failure slot
EnterPutsFirst(c) ==
    /\ pc[c] = "enter"
    /\ IF ~attached
       THEN Finish(c, "AttributeError", 0, <<>>) /\ UNCHANGED <<nsink, reqs, nextId>>
       ELSE IF ~initialized
       THEN Finish(c, "AttributeError", 688, <<>>) /\ UNCHANGED <<nsink, reqs, nextId>>
       ELSE /\ pc' = [pc EXCEPT ![c] =
                        IF exception # NoException THEN "unpack" ELSE "put"]
            /\ IF exception # NoException
               THEN /\ reqs' = Append(reqs, [id |-> nextId, st |-> prog[c][1].st,
                                             res |-> 0])
                    /\ nextId' = nextId + 1
               ELSE UNCHANGED <<reqs, nextId>>
            /\ IF prog[c][1].t = "select"
               THEN /\ nsink' = nsink + 1
                    /\ sid' = [sid EXCEPT ![c] = nsink + 1]
               ELSE UNCHANGED <<nsink, sid>>
            /\ UNCHANGED <<op, prog, inbox, acc, t0, closed, seen, lastSet,
                           shadow, rid, ret>>
    /\ UNCHANGED <<facadeVars, old, wpc, initialized, exception, handle,
                   table, disk, ncalls, served, users, commits, lost>>

\* self.conn.<method>(...): the attribute lookup on self.conn, then
\* Connection.execute up to `if self.exception:` (lines 608-609, 584; for a
\* select the response queue is created first, line 631)
Enter(c) ==
    /\ pc[c] = "enter"
    /\ IF ~attached
       THEN Finish(c, "AttributeError", 0, <<>>) /\ UNCHANGED nsink
       ELSE IF ~initialized
       THEN Finish(c, "AttributeError", 688, <<>>) /\ UNCHANGED nsink
       ELSE /\ pc' = [pc EXCEPT ![c] =
                        IF exception # NoException THEN "unpack" ELSE "put"]
            /\ IF prog[c][1].t = "select"
               THEN /\ nsink' = nsink + 1
                    /\ sid' = [sid EXCEPT ![c] = nsink + 1]
               ELSE UNCHANGED <<nsink, sid>>
            /\ UNCHANGED <<op, prog, inbox, acc, t0, closed, seen, lastSet,
                           shadow, rid, ret>>
    /\ UNCHANGED <<facadeVars, old, wpc, initialized, exception, reqs, handle,
                   table, disk, nextId, ncalls, served, users, commits, lost>>

\* check_raise_error, line 585: e_type, e_value, e_tb = self.exception
Unpack(c) ==
    /\ pc[c] = "unpack"
    /\ IF exception = NoException
       THEN Finish(c, "TypeError", 585, <<>>)
       ELSE /\ pc' = [pc EXCEPT ![c] = "clear"]
            /\ seen' = [seen EXCEPT ![c] = exception]
            /\ UNCHANGED <<op, prog, sid, inbox, acc, t0, closed, lastSet,
                           shadow, rid, ret>>
    /\ UNCHANGED <<facadeVars, old, wpc, initialized, exception, reqs, handle,
                   table, disk, nextId, nsink, ncalls, served, users, commits,
                   lost>>

\* Connection.executemany, line 621: check_raise_error() after the last item
Check(c) ==
    /\ pc[c] = "check"
    /\ IF exception # NoException
       THEN /\ pc' = [pc EXCEPT ![c] = "unpack"]
            /\ UNCHANGED <<op, prog, sid, inbox, acc, t0, closed, seen, lastSet, shadow,
                           rid, ret>>
       ELSE Advance(c, <<>>)
    /\ UNCHANGED <<facadeVars, old, wpc, initialized, exception, reqs, handle,
                   table, disk, nextId, nsink, ncalls, served, users, commits,
                   lost>>

\* what check_raise_error raises once it has cleared the slot (lines 591-602):
\* self.log.error raises AttributeError, reraise is not reached
Raised(e) == [out |-> "AttributeError", at |-> 591]

\* check_raise_error, lines 589-602: the slot is cleared, then something is raised
Clear(c) ==
    /\ pc[c] = "clear"
    /\ exception' = NoException
    /\ lost' = IF exception # NoException /\ Raised(exception).out # "BackendFailure"
               THEN lost \cup {exception} ELSE lost
    /\ Finish(c, Raised(exception).out, Raised(exception).at, <<>>)
    /\ UNCHANGED <<facadeVars, old, wpc, initialized, reqs, handle, table, disk,
                   nextId, nsink, ncalls, served, users, commits>>

\* the request Connection.execute builds for the channel step of c (line 616)
Request(c) ==
    [id |-> nextId, st |-> prog[c][1].st,
     res |-> IF prog[c][1].t = "select" THEN sid[c] ELSE 0]

\* the statement is run on the sqlite handle by the calling thread instead of
\* being queued
PutRunsInCaller(c) ==
    /\ pc[c] = "put"
    /\ users' = users \cup {c}
    /\ table' = IF Fails(prog[c][1].st) THEN table
                ELSE Execute(table, prog[c][1].st)
    /\ Advance(c, <<>>)
    /\ UNCHANGED <<facadeVars, old, wpc, initialized, exception, reqs, handle,
                   disk, nextId, nsink, ncalls, served, commits, lost>>

\* Connection.execute, line 616: self.reqs.put(...)
Put(c) ==
    /\ pc[c] = "put"
    /\ reqs' = Append(reqs, Request(c))
    /\ nextId' = nextId + 1
    /\ IF prog[c][1].t = "select"
       THEN /\ pc' = [pc EXCEPT ![c] = "get"]
            /\ rid' = [rid EXCEPT ![c] = nextId]
            /\ UNCHANGED <<op, prog, sid, inbox, acc, t0, closed, seen, lastSet,
                           shadow, ret>>
       ELSE IF Len(prog[c]) = 1
            THEN FinishWith(c, [Ret(op[c], "ok", 0, <<>>, c) EXCEPT !.rid = nextId])
            ELSE /\ rid' = [rid EXCEPT ![c] = nextId]
                 /\ prog' = [prog EXCEPT ![c] = Tail(prog[c])]
                 /\ pc' = [pc EXCEPT ![c] = StartPc(prog[c][2])]
                 /\ UNCHANGED <<op, sid, inbox, acc, t0, closed, seen, lastSet,
                                shadow, ret>>
    /\ UNCHANGED <<facadeVars, old, wpc, initialized, exception, handle, table,
                   disk, nsink, ncalls, served, users, commits, lost>>

\* what the facade makes of the result of a select_one / select: row is <<>>
\* (None) or <<rec>>, rows are the records an iteration yielded
AfterSelect(c, row, rows) ==
    LET o == op[c]
        q == prog[c][1].st.q
    IN CASE o.name = "get" ->
              IF row = <<>> THEN Finish(c, "KeyError", 328, <<>>)
              ELSE Finish(c, "ok", 0, <<decode(row[1].v)>>)
         [] o.name = "delete" /\ q = "SELECT_1" ->
              IF row = <<>> THEN Finish(c, "KeyError", 345, <<>>)
              ELSE Advance(c, <<>>)
         [] o.name = "contains" ->
              Finish(c, "ok", 0, IF row = <<>> THEN <<0>> ELSE <<1>>)
         [] o.name = "length" -> Finish(c, "ok", 0, row[1].v)
         [] o.name = "keys" ->
              Finish(c, "ok", 0, [i \in 1..Len(rows) |-> rows[i].k])
         [] o.name = "values" ->
              Finish(c, "ok", 0, [i \in 1..Len(rows) |-> decode(rows[i].v)])
         [] o.name = "items" ->
              Finish(c, "ok", 0,
                     [i \in 1..Len(rows) |-> <<rows[i].k, decode(rows[i].v)>>])
         [] OTHER -> Advance(c, <<>>)

\* Connection.select, lines 634-638: rec = res.get(), check_raise_error, then
\* the sentinel ends the iteration and a row is yielded
Get(c) ==
    /\ pc[c] = "get"
    /\ inbox[c] # <<>>
    /\ IF exception # NoException
       THEN /\ pc' = [pc EXCEPT ![c] = "unpack"]
            /\ inbox' = [inbox EXCEPT ![c] = Tail(inbox[c])]
            /\ UNCHANGED <<op, prog, sid, acc, t0, closed, seen, lastSet,
                           shadow, rid, ret>>
       ELSE IF Head(inbox[c]) = NoMore
       THEN AfterSelect(c, <<>>, acc[c])
       ELSE IF prog[c][1].one
       THEN AfterSelect(c, <<Head(inbox[c])>>, <<>>)
       ELSE /\ acc' = [acc EXCEPT ![c] = Append(acc[c], Head(inbox[c]))]
            /\ inbox' = [inbox EXCEPT ![c] = Tail(inbox[c])]
            /\ UNCHANGED <<pc, op, prog, sid, t0, closed, seen, lastSet,
                           shadow, rid, ret>>
    /\ UNCHANGED <<facadeVars, old, wpc, initialized, exception, reqs, handle,
                   table, disk, nextId, nsink, ncalls, served, users, commits,
                   lost>>

\* a forced close that waits for run() to end before it returns
ForcePutWaits(c) ==
    /\ pc[c] = "forceput"
    /\ wpc = "dead"
    /\ reqs' = Append(reqs, [id |-> nextId, st |-> CLOSE, res |-> nsink + 1])
    /\ nextId' = nextId + 1
    /\ nsink' = nsink + 1
    /\ rid' = [rid EXCEPT ![c] = nextId]
    /\ prog' = [prog EXCEPT ![c] = Tail(prog[c])]
    /\ pc' = [pc EXCEPT ![c] = StartPc(prog[c][2])]
    /\ UNCHANGED <<op, sid, inbox, acc, t0, closed, seen, lastSet, shadow, ret>>
    /\ UNCHANGED <<facadeVars, old, wpc, initialized, exception, handle, table,
                   disk, ncalls, served, users, commits, lost>>

\* Connection.close(force=True), line 665: the close request is put on the
\* queue with a response queue nobody reads
ForcePut(c) ==
    /\ pc[c] = "forceput"
    /\ IF ~attached
       THEN Finish(c, "AttributeError", 0, <<>>) /\ UNCHANGED <<reqs, nextId, nsink>>
       ELSE /\ reqs' = Append(reqs, [id |-> nextId, st |-> CLOSE, res |-> nsink + 1])
            /\ nextId' = nextId + 1
            /\ nsink' = nsink + 1
            /\ rid' = [rid EXCEPT ![c] = nextId]
            /\ prog' = [prog EXCEPT ![c] = Tail(prog[c])]
            /\ pc' = [pc EXCEPT ![c] = StartPc(prog[c][2])]
            /\ UNCHANGED <<op, sid, inbox, acc, t0, closed, seen, lastSet, shadow, ret>>
    /\ UNCHANGED <<facadeVars, old, wpc, initialized, exception, handle, table,
                   disk, ncalls, served, users, commits, lost>>

\* SqliteDict.close, line 394: self.conn = None
Detach(c) ==
    /\ pc[c] = "detach"
    /\ attached' = FALSE
    /\ Advance(c, <<>>)
    /\ UNCHANGED <<workload, mode, autocommit, old, fileExists, wpc, initialized, exception,
                   reqs, handle, table, disk, nextId, nsink, ncalls, served,
                   users, commits, lost>>

\* SqliteDict.terminate, lines 413-416: os.remove(self.path)
Remove(c) ==
    /\ pc[c] = "remove"
    /\ fileExists' = FALSE
    /\ Advance(c, <<>>)
    /\ UNCHANGED <<workload, mode, autocommit, old, attached, wpc, initialized, exception,
                   reqs, handle, table, disk, nextId, nsink, ncalls, served,
                   users, commits, lost>>

\* __enter__, line 286: self.conn = self.connect(), a new Connection with its
\* own queue, failure slot and thread (lines 477-491); the thread of the
\* Connection it replaces goes on if it has not ended
Connect(c) ==
    /\ pc[c] = "connect"
    /\ attached' = TRUE
    /\ old' = IF wpc = "dead" THEN old
              ELSE Append(old, [wpc |-> wpc, reqs |-> reqs])
    /\ wpc' = "start"
    /\ initialized' = FALSE
    /\ exception' = NoException
    /\ reqs' = <<>>
    /\ handle' = "none"
    /\ table' = disk
    /\ nextId' = 1
    /\ served' = <<>>
    /\ commits' = <<>>
    /\ Advance(c, <<>>)
    /\ UNCHANGED <<workload, mode, autocommit, fileExists, disk, nsink, ncalls,
                   users, lost>>

CallerNext(c) ==
    \/ \E o \in AllOps : Call(c, o)
    \/ Enter(c)
    \/ Unpack(c)
    \/ Clear(c)
    \/ Check(c)
    \/ Put(c)
    \/ Get(c)
    \/ ForcePut(c)
    \/ Detach(c)
    \/ Remove(c)
    \/ Connect(c)

Next ==
    \/ WorkerNext
    \/ OldWorkerNext
    \/ \E c \in Callers : CallerNext(c)

Spec == Init /\ [][Next]_vars

(* ------------------------------- claims -------------------------------- *)

\* the call of c has ended and was op `name`
Ended(c, name) == ret[c].op.name = name

\* the last request the ended call of c put has been dequeued by run()
Served(c) == ret[c].rid >= 1 /\ ret[c].rid <= Len(served)

\* the value the table holds for key k: <<>> or <<blob>>
ValueOf(t, k) ==
    LET IsK(r) == r.k = k
        hit == SelectSeq(t, IsK)
    IN [i \in 1..Len(hit) |-> hit[i].v]

\* C1: requests are dequeued and applied in the order in which they were put
\* on the queue, whichever thread put them: the i-th request served is the
\* i-th request enqueued, the queue holds the rest in arrival order, and of
\* two sets of one key made by different threads the table holds the value of
\* the one enqueued last.
C1_FifoOrder ==
    /\ \A i \in 1..Len(served) : served[i] = i
    /\ \A i \in 1..Len(reqs) : reqs[i].id = Len(served) + i
    /\ \A c, d \in Callers :
          ( /\ c # d
            /\ ~autocommit
            /\ Ended(c, "set") /\ Ended(d, "set")
            /\ Served(c) /\ Served(d)
            /\ ret[c].op.k = ret[d].op.k
            /\ ret[c].rid < ret[d].rid )
          => ValueOf(table, ret[d].op.k) = <<encode(ret[d].op.v)>>

\* two threads have set the same key to different values and both requests
\* have been applied
C1_Witness ==
    /\ ~autocommit
    /\ Ended("c1", "set") /\ Ended("c2", "set")
    /\ Served("c1") /\ Served("c2")
    /\ ret["c1"].op.k = ret["c2"].op.k
    /\ ret["c1"].op.v # ret["c2"].op.v
    /\ ret["c2"].rid < ret["c1"].rid

\* C2: only the worker thread ever operates on the sqlite handle (connect,
\* execute, cursor iteration, commit): no caller thread does.
C2_OnlyWorkerTouchesHandle == users \subseteq {Worker}

\* the worker has run a set and then a get of the same key, and the row the
\* get read went back to the calling thread
C2_Witness ==
    /\ users = {Worker}
    /\ \E c \in Callers :
          /\ Ended(c, "get") /\ ret[c].out = "ok"
          /\ ret[c].op.k = "a"
          /\ ret[c].val # <<>>

\* C3: no failure is dropped: a failure that check_raise_error takes out of
\* the slot is raised to the caller that checked.
C3_NoFailureDropped == lost = {}

\* the ids 1..n in order
UpTo(n) == [j \in 1..n |-> j]

\* C4: when commit(blocking=True) returns, run() has called conn.commit() for
\* that commit request, after it had served every request enqueued before it;
\* commit(blocking=False) never waits on a response queue or on the worker.
C4_BlockingCommit ==
    /\ \A c \in Callers :
          (Ended(c, "commit") /\ ret[c].op.flag /\ ret[c].out = "ok"
           /\ ~ret[c].closed)
          => \E i \in 1..Len(commits) :
                /\ commits[i].by = ret[c].rid
                /\ commits[i].after = UpTo(ret[c].rid - 1)
    /\ \A c \in Callers :
          (op[c].name = "commit" /\ ~op[c].flag)
          => pc[c] \in {"enter", "unpack", "clear", "put"}

\* a blocking commit has returned after an earlier request was served, and a
\* non-blocking commit has returned while its request is still in the queue
C4_Witness ==
    /\ Ended("c1", "commit") /\ ret["c1"].op.flag /\ ret["c1"].out = "ok"
    /\ ret["c1"].rid >= 2
    /\ Ended("c2", "commit") /\ ~ret["c2"].op.flag /\ ret["c2"].out = "ok"
    /\ ret["c2"].rid > Len(served)

\* C5: a blocking commit or a non-forced close whose check finds the failure
\* of an earlier statement pending raises that failure.
C5_PendingFailureRaised ==
    \A c \in Callers :
       ( /\ \/ Ended(c, "commit") /\ ret[c].op.flag
            \/ Ended(c, "close") /\ ~ret[c].op.flag
         /\ ret[c].seen.kind = "statement" )
       => ret[c].out = "BackendFailure"

\* C6: when a non-forced close finishes, also one called with a failure
\* pending, every request enqueued before it has been served and the worker
\* thread has ended.
C6_CloseDrainsWithFailurePending ==
    \A c \in Callers :
       (Ended(c, "close") /\ ~ret[c].op.flag /\ ret[c].seen.kind = "statement")
       => /\ ret[c].t0 - 1 <= Len(served)
          /\ wpc = "dead"

\* no call reaches self.join() (line 671)
JoinNotReached == \A c \in Callers : pc[c] # "join"

\* C7: close(force=True) never blocks: whatever the worker is doing, its put
\* of the close request can be made at once, and the call neither waits on a
\* response queue nor joins the worker.
C7_ForcedCloseNeverBlocks ==
    \A c \in Callers :
       (op[c].name = "close" /\ op[c].flag)
       => /\ pc[c] \in {"forceput", "detach"}
          /\ pc[c] = "forceput" => ENABLED ForcePut(c)
          /\ pc[c] = "detach" => ENABLED Detach(c)

\* a forced close has returned although run() had ended before the close
\* request was put
C7_Witness ==
    /\ Ended("c1", "close") /\ ret["c1"].op.flag /\ ret["c1"].out = "ok"
    /\ wpc = "dead"
    /\ reqs # <<>>
    /\ reqs[Len(reqs)].id = ret["c1"].rid
    /\ reqs[Len(reqs)].st = CLOSE

\* C8: on a read-only store set, delete, clear, update and terminate raise
\* RuntimeError in the calling thread before they use the channel: they put
\* no request, never become a call in progress, and the table stays as it was.
C8_ReadOnlyRejects ==
    mode = "r" =>
      /\ \A c \in Callers :
            /\ op[c].name \notin {"set", "delete", "clear", "update", "terminate"}
            /\ ret[c].op.name \in {"set", "delete", "clear", "update", "terminate"}
               => /\ ret[c].out = "RuntimeError"
                  /\ ret[c].rid = 0
      /\ \A i \in 1..Len(reqs) : reqs[i].st.q \notin {"REPLACE", "DELETE_ALL"}
      /\ table = TableAtOpen(workload)
      /\ disk = TableAtOpen(workload)
      /\ fileExists

\* a read-only store has refused terminate() while its worker was serving
C8_Witness ==
    /\ mode = "r"
    /\ Ended("c1", "terminate") /\ ret["c1"].out = "RuntimeError"
    /\ wpc = "loop"
    /\ attached

\* C9: once close() has completed, every facade call other than close fails.
C9_ClosedIsTerminal ==
    \A c \in Callers :
       ( /\ ret[c].closed
         /\ ret[c].op.name \in {"get", "set", "delete", "contains", "length",
                                "keys", "clear", "update", "commit"} )
       => ret[c].out # "ok"

\* C10: on a writable open store, a get(k) made after set(k, v) returned, with
\* only reads and sets and deletes of other keys made in between, returns
\* decode(encode(v)).
C10_GetReturnsLastSet ==
    \A c \in Callers :
       ( /\ workload.threads = {c}
         /\ Ended(c, "get")
         /\ ~ret[c].closed
         /\ lastSet[ret[c].op.k] # <<>> )
       => /\ ret[c].out = "ok"
          /\ ret[c].val = <<decode(encode(lastSet[ret[c].op.k][1]))>>

\* C11: starting from an empty table, once N distinct keys have been set the
\* length is N; once M of them have been deleted the length is N - M, and a
\* get of a deleted key raises the key-not-found error. (Stated for one
\* thread whose sets and deletes all returned, and for reads that found
\* the worker ready.)
C11_LengthCountsKeys ==
    \A c \in Callers :
       ( /\ workload = CountWorkload
         /\ \A k \in Keys : shadow[k] # "?"
         /\ ret[c].at # 688 )
       => /\ Ended(c, "length")
             => /\ ret[c].out = "ok"
                /\ ret[c].val = <<Cardinality({k \in Keys : shadow[k] = "set"})>>
          /\ (Ended(c, "get") /\ shadow[ret[c].op.k] = "del")
             => ret[c].out = "KeyError"

\* C12: opening a store in mode 'w' on a file whose table holds rows leaves
\* the table empty: the constructor returns, and nothing is in the table or
\* on disk when it has.
C12_WriteFreshOpensEmpty ==
    \A c \in Callers :
       (mode = "w" /\ Ended(c, "open"))
       => /\ ret[c].out = "ok"
          /\ table = <<>>
          /\ disk = <<>>

\* C13: opening a store in mode 'a' leaves every row of the table as it was:
\* once the constructor has returned, the table and the file hold the rows
\* they held before.
C13_AppendKeepsRows ==
    \A c \in Callers :
       (mode = "a" /\ Ended(c, "open") /\ ret[c].out = "ok")
       => /\ table = TableAtOpen(workload)
          /\ disk = TableAtOpen(workload)

\* C14: keys that were set, committed with commit(blocking=True) and so are in
\* the file when the store is closed are present with their values once the
\* store is opened again in mode 'a': a get of such a key that is answered
\* finds the value.
C14_CommittedKeysSurviveReopen ==
    \A c \in Callers :
       ( /\ workload = OpenWorkload
         /\ mode = "a"
         /\ Ended(c, "get")
         /\ ret[c].out \in {"ok", "KeyError"} )
       => /\ ret[c].out = "ok"
          /\ ret[c].val = <<decode(ValueOf(TableAtOpen(workload), ret[c].op.k)[1])>>

\* C15: with one thread using the store, keys(), values() and items() that
\* return yield the key, the decoded value and the (key, decoded value) pair
\* of every row of the table as it is then, one element per row and so as
\* many as length() returns, in rowid order; element i of each is about the
\* same row i, and a repeated call yields the same sequence.
C15_IterationInRowidOrder ==
    \A c \in Callers :
       (workload.threads = {c} /\ pc[c] = "idle" /\ ret[c].out = "ok")
       => /\ Ended(c, "length") => ret[c].val = <<Len(table)>>
          /\ Ended(c, "keys")
             => ret[c].val = [i \in 1..Len(table) |-> table[i].k]
          /\ Ended(c, "values")
             => ret[c].val = [i \in 1..Len(table) |-> decode(table[i].v)]
          /\ Ended(c, "items")
             => ret[c].val = [i \in 1..Len(table) |->
                                <<table[i].k, decode(table[i].v)>>]

\* items() has yielded two pairs, the row of "b" before the later row of "a",
\* and the request it made has been served
C15_Witness ==
    /\ workload = IterWorkload
    /\ pc["c1"] = "idle"
    /\ Ended("c1", "items") /\ ret["c1"].out = "ok"
    /\ Served("c1")
    /\ \E v, w \in Values : ret["c1"].val = << <<"b", v>>, <<"a", w>> >>

\* C16: a statement that fails on the worker does not stop the worker: the
\* step of run() that records the failure of a statement leaves the worker
\* in its loop, ready to dequeue the next request.
C16_WorkerSurvivesFailure ==
    [][(exception'.kind = "statement" /\ exception' # exception)
       => wpc' = "loop"]_vars

\* C17: if the worker's initialization fails, the worker records a pending
\* failure as it ends, and every call that enters the channel of an attached
\* store afterwards raises that failure.
C17_InitFailureIsTerminal ==
    [][ /\ (wpc = "start" /\ wpc' = "dead") => exception' # NoException
        /\ \A c \in Callers :
              ( /\ wpc = "dead" /\ ~initialized /\ attached
                /\ pc[c] = "enter" /\ pc'[c] # "enter" )
              => /\ pc'[c] = "idle"
                 /\ ret'[c].out = "BackendFailure" ]_vars

\* C18: before the worker has flagged itself ready or recorded an
\* initialization failure, execute, select, commit and a non-forced close
\* enqueue nothing: a caller that arrives then keeps polling, and leaves the
\* wait only by the initialization-timeout error.
C18_NoRequestBeforeReady ==
    [][ wpc = "start"
        => /\ Len(reqs') > Len(reqs) => reqs'[Len(reqs')].st = CLOSE
           /\ \A c \in Callers :
                 (attached /\ pc[c] = "enter" /\ pc'[c] # "enter")
                 => /\ pc'[c] = "idle"
                    /\ ret'[c].out = "TimeoutError" ]_vars

\* the call in progress of c is at a step of its own, which it can take
\* whatever the worker does: it is not waiting on a response queue
NotWaiting(c) ==
    /\ pc[c] \in {"enter", "unpack", "clear", "put"}
    /\ pc[c] = "enter" => ENABLED Enter(c)
    /\ pc[c] = "unpack" => ENABLED Unpack(c)
    /\ pc[c] = "clear" => ENABLED Clear(c)
    /\ pc[c] = "put" => ENABLED Put(c)

Enqueued(c) == IF ret[c].rid = 0 THEN 0 ELSE ret[c].rid - ret[c].t0 + 1

\* C20 as stated: an executemany that finds the worker ready has enqueued one
\* request for every tuple of the list by the time it returns or raises.
C20_WholeListEnqueued ==
    \A c \in Callers :
       (workload.threads = {c} /\ Ended(c, "executemany") /\ ret[c].at # 688)
       => Enqueued(c) = Len(ItemKeys)

\* C20, amended: executemany puts one request per tuple in list order, the
\* i-th put being the request for the i-th tuple; it has put them all when it
\* returns, and when it raises it has put those of the first tuples of the
\* list only, none or all of them included.
C20_OneRequestPerTupleInOrder ==
    [][ \A c \in Callers :
          workload.threads = {c}
          => /\ ( /\ op[c].name = "executemany"
                  /\ pc[c] = "put" /\ pc'[c] # "put" )
                => /\ nextId - t0[c] + 1 \in 1..Len(ItemKeys)
                   /\ reqs' = Append(reqs, [Request(c) EXCEPT
                                 !.st = ManyItems(op[c])[nextId - t0[c] + 1]])
             /\ (ret'[c].op.name = "executemany" /\ ret'[c].out = "ok")
                => ret'[c].rid = ret'[c].t0 + Len(ItemKeys) - 1
             /\ (ret'[c].op.name = "executemany" /\ ret'[c].out # "ok")
                => /\ ret'[c].rid = 0 \/ ret'[c].rid >= ret'[c].t0
                   /\ ret'[c].rid <= ret'[c].t0 + Len(ItemKeys) - 1 ]_vars

\* an executemany has raised after it had put the request of the first tuple
\* and not that of the second: the worker had failed on the first meanwhile
C20_Witness ==
    /\ workload = ManyWorkload
    /\ Ended("c1", "executemany") /\ ret["c1"].out # "ok"
    /\ ret["c1"].seen.kind = "statement"
    /\ ret["c1"].seen.id = ret["c1"].t0
    /\ ret["c1"].rid = ret["c1"].t0
    /\ Len(ItemKeys) > 1

\* C21: each select has its own response queue. With two threads reading a
\* store nobody writes: a thread waiting in a select has received nothing
\* until its request is served, and then exactly the rows of its own
\* statement in result order followed by one sentinel; a call that found the
\* worker ready ends without error, with what its own statement yields.
C21_OwnRowsThenSentinel ==
    workload = SelectWorkload
    => \A c \in Callers :
          /\ pc[c] = "get"
             => IF \E i \in 1..Len(served) : served[i] = rid[c]
                THEN acc[c] \o inbox[c]
                     = Cursor(TableAtOpen(workload), prog[c][1].st) \o <<NoMore>>
                ELSE acc[c] = <<>> /\ inbox[c] = <<>>
          /\ pc[c] # "get" => inbox[c] = <<>>
          /\ (ret[c].by = c /\ ret[c].at # 688)
             => /\ ret[c].out = "ok"
                /\ Ended(c, "length")
                   => ret[c].val = <<Len(TableAtOpen(workload))>>
                /\ Ended(c, "keys")
                   => ret[c].val = [i \in 1..Len(TableAtOpen(workload)) |->
                                      TableAtOpen(workload)[i].k]
                /\ Ended(c, "get")
                   => ret[c].val
                      = <<decode(ValueOf(TableAtOpen(workload), ret[c].op.k)[1])>>

\* two threads are in selects of different statements at once, both served,
\* each with items waiting in its own response queue
C21_Witness ==
    /\ pc["c1"] = "get" /\ pc["c2"] = "get"
    /\ prog["c1"][1].st # prog["c2"][1].st
    /\ inbox["c1"] # <<>> /\ inbox["c2"] # <<>>
    /\ sid["c1"] # sid["c2"]

\* C22: with autocommit off, a non-forced close() commits: once run() has
\* dequeued the close request of such a close, every change made through the
\* handle is in the file.
C22_CloseCommits ==
    \A c \in Callers :
       ( /\ workload.threads = {c}
         /\ ~autocommit
         /\ op[c].name = "close" /\ ~op[c].flag
         /\ \E i \in 1..Len(served) : served[i] = rid[c] )
       => disk = table

\* C23: exit always closes: once __exit__ has finished, by returning or by
\* raising, also with a failure pending, the facade has no Connection
\* attached and the worker thread has ended. (Stated for an exit that found
\* a Connection attached and its worker past its initialization.)
C23_ExitAlwaysCloses ==
    \A c \in Callers :
       ( /\ pc[c] = "idle"
         /\ Ended(c, "exit")
         /\ ~ret[c].closed
         /\ ret[c].at # 688 )
       => /\ ~attached
          /\ wpc = "dead"

\* the worker threads of the facade that have not ended
LiveWorkers == Len(old) + (IF wpc = "dead" THEN 0 ELSE 1)

\* C26: a facade never has more than one live worker: no Connection is
\* created while the thread of an earlier one is still running.
C26_AtMostOneLiveWorker == LiveWorkers <= 1

\* C24: with one thread using the store, a get or a delete of a key the
\* table does not hold raises KeyError in the calling thread, and a get of a
\* key it holds does not; the delete that raised KeyError has put its lookup
\* and nothing after it, and contains(k) answers true exactly when the table
\* holds k, that is when get(k) does not raise KeyError.
C24_AbsentKeyRaises ==
    \A c \in Callers :
       ( /\ workload.threads = {c}
         /\ pc[c] = "idle"
         /\ ret[c].out \in {"ok", "KeyError"} )
       => /\ Ended(c, "get")
             => (ret[c].out = "KeyError" <=> ~HasKey(table, ret[c].op.k))
          /\ (Ended(c, "delete") /\ ret[c].out = "KeyError")
             => /\ ~HasKey(table, ret[c].op.k)
                /\ ret[c].rid = ret[c].t0
                /\ nextId = ret[c].rid + 1
                /\ reqs = <<>>
          /\ (Ended(c, "delete") /\ ret[c].out = "ok")
             => ret[c].rid > ret[c].t0
          /\ Ended(c, "contains")
             => (ret[c].val = <<1>> <=> HasKey(table, ret[c].op.k))

\* a delete of a key the table does not hold has raised KeyError while the
\* table holds another key
C24_Witness ==
    /\ pc["c1"] = "idle"
    /\ Ended("c1", "delete") /\ ret["c1"].out = "KeyError"
    /\ ret["c1"].at = 345
    /\ table # <<>>
    /\ Served("c1")

\* C25: an update on a store opened writable ends without error, having
\* put the REPLACE requests that replace the values of the keys it names
\* (so that a key already present keeps its single row with the new value).
C25_UpdateReplaces ==
    \A c \in Callers :
       ( /\ pc[c] = "idle"
         /\ Ended(c, "update")
         /\ mode # "r" )
       => /\ ret[c].out = "ok"
          /\ ret[c].rid > ret[c].t0

\* C27: a failure the worker has stored is raised to one caller only: no two
\* threads have each ended a call by raising from check_raise_error with the
\* same stored failure unpacked.
C27_RaisedToOneCaller ==
    \A c, d \in Callers :
       ( /\ c # d
         /\ ret[c].at = 591
         /\ ret[d].at = 591
         /\ ret[c].seen # NoException )
       => ret[c].seen # ret[d].seen

\* C28: a call of execute that finds a failure pending puts no request: the
\* step that finds the slot set leads to check_raise_error and nowhere else,
\* the steps of check_raise_error lead only to its end, none of these steps
\* changes the queue, the request counter or the table, and the call that
\* ends by raising from check_raise_error records the same last request it had put
\* before.
C28_RaisingExecutePutsNothing ==
    [][ \A c \in Callers :
          /\ ( /\ pc[c] = "enter" /\ pc'[c] # "enter"
               /\ attached /\ initialized
               /\ exception # NoException )
             => /\ pc'[c] = "unpack"
                /\ reqs' = reqs /\ nextId' = nextId /\ table' = table
          /\ (pc[c] = "unpack" /\ pc'[c] # "unpack")
             => /\ pc'[c] \in {"clear", "idle"}
                /\ reqs' = reqs /\ nextId' = nextId /\ table' = table
          /\ (pc[c] = "clear" /\ pc'[c] # "clear")
             => /\ pc'[c] = "idle"
                /\ ret'[c].at = 591
                /\ ret'[c].rid = rid[c]
                /\ reqs' = reqs /\ nextId' = nextId /\ table' = table ]_vars

\* an execute called with the failure of an earlier statement pending has
\* raised from check_raise_error, and no request was put since the call began
C28_Witness ==
    /\ pc["c1"] = "idle"
    /\ Ended("c1", "execute") /\ ret["c1"].at = 591
    /\ ret["c1"].seen.kind = "statement"
    /\ ret["c1"].seen.id < ret["c1"].t0
    /\ nextId = ret["c1"].t0
    /\ reqs = <<>>

\* C29: no caller is left waiting for an answer nobody will send: a thread
\* that waits on the response queue of its request (select iteration,
\* blocking commit, non-forced close) with nothing in it has a worker thread
\* that is still running and can serve the request.
C29_WaitingCallerHasWorker ==
    \A c \in Callers :
       (pc[c] = "get" /\ inbox[c] = <<>>) => wpc # "dead"

====
